---- MODULE Spec2Model ----
(***************************************************************************)
(* Model of shaka::js::mse::HTMLVideoElement (src/js/mse/video_element.cc):*)
(* the ready-state / pipeline-status state machine, the events it          *)
(* schedules, the error record and the source lifecycle.                   *)
(*                                                                         *)
(* One action per public operation or pipeline callback.  `events` and     *)
(* `calls` hold what the most recent call scheduled on the event scheduler *)
(* and asked of its collaborators; `last_call` and `pre` record which call *)
(* that was and the element state it started from.                         *)
(***************************************************************************)
EXTENDS Integers, Sequences, FiniteSets, TLC

\* ---------------------------------------------------------------- bounds
NumSources == 1      \* entries of the MediaSource registry
NumStatuses == 1     \* distinct media::Status values reported to OnMediaError
VolumeSteps == 1     \* volume_ ranges over 0..VolumeSteps (VolumeSteps is 1.0)
MaxLatchPlays == 2   \* cap of the latch_plays counter
MaxTracks == 2       \* text tracks AddTextTrack may create
MaxTime == 1         \* playback times range over 0..MaxTime
MaxTicksAfterStop == 2  \* cap of the ticks_after_stop counter

\* ------------------------------------------------------------- constants
HAVE_NOTHING == 0
HAVE_METADATA == 1
HAVE_CURRENT_DATA == 2
HAVE_FUTURE_DATA == 3
HAVE_ENOUGH_DATA == 4

MediaReadyState == HAVE_NOTHING..HAVE_ENOUGH_DATA

PipelineStatus ==
  {"Initializing", "Playing", "Paused", "Stalled",
   "SeekingPlay", "SeekingPause", "Ended", "Errored"}

\* media_source_ == nullptr
NoSource == 0
SourceIds == 1..NumSources

\* error == nullptr
NoError == [code |-> "none", message |-> <<>>]

MediaError(code, message) == [code |-> code, message |-> message]

\* GetErrorString(status): one message per status value
GetErrorString(status) == <<"ErrorString", status>>

MediaStatuses == 1..NumStatuses

\* The urls SetSource is given: the empty string, one url per registry
\* entry, and a url the registry does not know.
EmptyUrl == <<>>
BadUrl == <<"bad-url">>
UrlOf(id) == <<"blob", id>>
Urls == {EmptyUrl, BadUrl} \cup {UrlOf(id) : id \in SourceIds}

\* MediaSource::FindMediaSource(src)
FindMediaSource(src) ==
  IF \E id \in SourceIds : UrlOf(id) = src
    THEN CHOOSE id \in SourceIds : UrlOf(id) = src
    ELSE NoSource

VARIABLES
  ready_state,        \* media::MediaReadyState
  pipeline_status_,   \* media::PipelineStatus
  media_source_,      \* NoSource or the attached MediaSource
  error,              \* NoError or a MediaError
  autoplay,
  will_play_,
  is_muted_,
  volume_,
  events,             \* events scheduled by the most recent call, in order
  calls,              \* collaborator calls made by the most recent call
  result,             \* what the most recent call returned
  last_call,          \* [op, arg] of the most recent call
  pre,                \* element state the most recent call started from
  dchecks_on,         \* build: are DCHECKs compiled in (fatal when false)
  dcheck_failed,      \* the most recent call evaluated a DCHECK to false
  aborted,            \* a DCHECK terminated the process
  attach_broken,      \* some ready-state report broke the DCHECK of line 74
  pipeline_volume,    \* per MediaSource: the last volume its controller got
                      \* since the source was opened (VolumeUnset: none)
  error_scheduled,    \* an Error event was scheduled since error was cleared
  latch_plays,        \* play commands SetSource issued for the will-play
                      \* latch since Play() last set it (0 once it is cleared)
  text_tracks,        \* the std::vector of tracks:
                      \*   elems    - the tracks, in the order they were made
                      \*   capacity - capacity of its storage
                      \*   buffer   - which allocation is its storage (0: none)
  shutdown_,          \* std::atomic<bool>
  dtor,               \* "alive", "joining" (flag set) or "destroyed"
  threads_started,    \* ThreadMain instances started for this element
  thread_,            \* the thread that runs ThreadMain:
                      \*   pc         - where ThreadMain is
                      \*   lastTime   - local of ThreadMain
                      \*   time       - local of ThreadMain (0 outside a tick)
                      \*   saw_source - the media_source_ CurrentTime()
                      \*                tested non-null
                      \*   cue_args   - <<newTime, oldTime>> of the running
                      \*                CheckForCueChange
                      \*   iter       - the range-for of CheckForCueChange
                      \*   eval_prev  - time sampled by the latest tick that
                      \*                checked cues, or at the start
                      \*   ticks_after_stop - tick bodies begun while
                      \*                shutdown_ was already set
                      \*   fault      - what the latest step read that it
                      \*                must not: "none", "moved_slot",
                      \*                "closed_source"
  crashed             \* an invalid access terminated the process

vars == <<ready_state, pipeline_status_, media_source_, error, autoplay,
          will_play_, is_muted_, volume_, events, calls, result, last_call,
          pre, dchecks_on, dcheck_failed, aborted, attach_broken,
          pipeline_volume, error_scheduled, latch_plays, text_tracks,
          shutdown_, dtor, threads_started, thread_, crashed>>

\* pipeline_volume of a source whose controller got no volume
VolumeUnset == -1

\* what the owning thread's calls write
mainVars ==
  <<ready_state, pipeline_status_, media_source_, error, autoplay,
    will_play_, is_muted_, volume_, events, calls, result, last_call, pre,
    dchecks_on, dcheck_failed, aborted, attach_broken, pipeline_volume,
    error_scheduled, latch_plays, text_tracks>>

\* what ThreadMain writes
threadVars == <<thread_, crashed>>

Times == 0..MaxTime

\* ------------------------------------------------------ call bookkeeping
\* The element as a call sees it on entry.
Self ==
  [ready_state |-> ready_state, pipeline_status_ |-> pipeline_status_,
   media_source_ |-> media_source_, error |-> error,
   will_play_ |-> will_play_, events |-> <<>>, calls |-> <<>>,
   dcheck_failed |-> FALSE, aborted |-> FALSE,
   attach_broken |-> attach_broken, pipeline_volume |-> pipeline_volume,
   error_scheduled |-> error_scheduled, latch_plays |-> latch_plays,
   text_tracks |-> text_tracks]

\* ScheduleEvent<events::Event>(type)
ScheduleEvent(s, type) ==
  [s EXCEPT !.events = Append(@, type),
            !.error_scheduled = @ \/ type = "Error"]

\* a call on a collaborator (MediaSource, controller, pipeline manager)
Call(s, c) == [s EXCEPT !.calls = Append(@, c)]

\* media_source_->GetController()->SetVolume(volume)
ControllerSetVolume(s, source, volume) ==
  [Call(s, <<"SetVolume", source, volume>>)
     EXCEPT !.pipeline_volume[source] = volume]

\* media_source_->CloseMediaSource()
CloseMediaSource(s, source) ==
  [Call(s, <<"CloseMediaSource", source>>)
     EXCEPT !.pipeline_volume[source] = VolumeUnset]

\* will_play_ = false
ClearLatch(s) == [s EXCEPT !.will_play_ = FALSE, !.latch_plays = 0]

\* DCHECK(cond): compiled out or fatal
DCHECK(s, cond) ==
  IF cond THEN s
  ELSE [s EXCEPT !.dcheck_failed = TRUE, !.aborted = dchecks_on]

\* ------------------------------------------------- OnReadyStateChanged
\* the DCHECK of OnReadyStateChanged: a ready state other than HAVE_NOTHING
\* is reported exactly while a MediaSource is attached
AttachmentOK(source, new_ready_state) ==
  IF source # NoSource
    THEN new_ready_state # HAVE_NOTHING
    ELSE new_ready_state = HAVE_NOTHING

\* ReadyStateEvents with Waiting also scheduled on a drop to HAVE_NOTHING
ReadyStateEvents_WaitingOnReset(cur, new) ==
  (IF cur < HAVE_METADATA /\ new >= HAVE_METADATA
     THEN <<"LoadedMetaData">> ELSE <<>>)
  \o (IF cur < HAVE_CURRENT_DATA /\ new >= HAVE_CURRENT_DATA
        THEN <<"LoadedData">> ELSE <<>>)
  \o (IF cur < HAVE_ENOUGH_DATA /\ new >= HAVE_ENOUGH_DATA
        THEN <<"CanPlay">> ELSE <<>>)
  \o (IF cur >= HAVE_FUTURE_DATA /\ new < HAVE_FUTURE_DATA
        THEN <<"Waiting">> ELSE <<>>)
  \o <<"ReadyStateChange">>

\* ReadyStateEvents with the thresholds chained by else-if: one threshold
\* event per call
ReadyStateEvents_ElseIf(cur, new) ==
  (IF cur < HAVE_METADATA /\ new >= HAVE_METADATA
     THEN <<"LoadedMetaData">>
   ELSE IF cur < HAVE_CURRENT_DATA /\ new >= HAVE_CURRENT_DATA
     THEN <<"LoadedData">>
   ELSE IF cur < HAVE_ENOUGH_DATA /\ new >= HAVE_ENOUGH_DATA
     THEN <<"CanPlay">>
   ELSE IF cur >= HAVE_FUTURE_DATA /\ new < HAVE_FUTURE_DATA
           /\ new # HAVE_NOTHING
     THEN <<"Waiting">>
   ELSE <<>>)
  \o <<"ReadyStateChange">>

\* the events of one ready-state change, in the order they are scheduled
ReadyStateEvents(cur, new) ==
  (IF cur < HAVE_METADATA /\ new >= HAVE_METADATA
     THEN <<"LoadedMetaData">> ELSE <<>>)
  \o (IF cur < HAVE_CURRENT_DATA /\ new >= HAVE_CURRENT_DATA
        THEN <<"LoadedData">> ELSE <<>>)
  \o (IF cur < HAVE_ENOUGH_DATA /\ new >= HAVE_ENOUGH_DATA
        THEN <<"CanPlay">> ELSE <<>>)
  \o (IF cur >= HAVE_FUTURE_DATA /\ new < HAVE_FUTURE_DATA
         /\ new # HAVE_NOTHING
        THEN <<"Waiting">> ELSE <<>>)
  \o <<"ReadyStateChange">>

\* OnReadyStateChanged without the early return for an unchanged state
OnReadyStateChanged_NoEarlyReturn(s, new_ready_state) ==
  LET ok == AttachmentOK(s.media_source_, new_ready_state)
      s0 == [DCHECK(s, ok) EXCEPT !.attach_broken = @ \/ ~ok]
  IN  IF s0.aborted THEN s0
      ELSE [s0 EXCEPT
              !.events = @ \o <<"ReadyStateChange">>,
              !.ready_state = new_ready_state]

OnReadyStateChanged(s, new_ready_state) ==
  LET ok == AttachmentOK(s.media_source_, new_ready_state)
      s0 == [DCHECK(s, ok) EXCEPT !.attach_broken = @ \/ ~ok]
  IN  IF s0.aborted THEN s0
      ELSE IF s0.ready_state = new_ready_state THEN s0
      ELSE [s0 EXCEPT
              !.events = @ \o ReadyStateEvents(s0.ready_state, new_ready_state),
              !.ready_state = new_ready_state]

\* ---------------------------------------------- OnPipelineStatusChanged
Seekings == {"SeekingPlay", "SeekingPause"}

\* RepeatedStatus without the re-fired seek event
RepeatedStatus_Silent(s, status) == s

\* status == pipeline_status_
RepeatedStatus(s, status) ==
  IF status \in Seekings THEN ScheduleEvent(s, "Seeking") ELSE s

\* ToPlaying with the Seeked of a finished seek left out
ToPlaying_NoSeeked(s) ==
  IF s.pipeline_status_ = "Paused"
    THEN ScheduleEvent(ScheduleEvent(s, "Play"), "Playing")
  ELSE LET s0 == DCHECK(s, s.pipeline_status_ \in
                             {"Stalled", "Initializing", "SeekingPlay"})
       IN  IF s0.aborted THEN s0 ELSE ScheduleEvent(s0, "Playing")

\* case media::PipelineStatus::Playing
ToPlaying(s) ==
  IF s.pipeline_status_ = "Paused"
    THEN ScheduleEvent(ScheduleEvent(s, "Play"), "Playing")
  ELSE IF s.pipeline_status_ = "SeekingPlay"
    THEN ScheduleEvent(ScheduleEvent(s, "Seeked"), "Playing")
  ELSE LET s0 == DCHECK(s, s.pipeline_status_ \in {"Stalled", "Initializing"})
       IN  IF s0.aborted THEN s0 ELSE ScheduleEvent(s0, "Playing")

\* ToPaused with Pause scheduled from Playing only
ToPaused_StalledSilent(s) ==
  IF s.pipeline_status_ = "Playing"
    THEN ScheduleEvent(s, "Pause")
  ELSE IF s.pipeline_status_ = "SeekingPause"
    THEN ScheduleEvent(s, "Seeked")
  ELSE DCHECK(s, s.pipeline_status_ \in {"Initializing", "Stalled"})

\* case media::PipelineStatus::Paused
ToPaused(s) ==
  IF s.pipeline_status_ \in {"Playing", "Stalled"}
    THEN ScheduleEvent(s, "Pause")
  ELSE IF s.pipeline_status_ = "SeekingPause"
    THEN ScheduleEvent(s, "Seeked")
  ELSE DCHECK(s, s.pipeline_status_ = "Initializing")

\* ToEnded with Seeked scheduled from SeekingPlay only
ToEnded_OneSeeking(s) ==
  IF s.pipeline_status_ = "Playing"
    THEN ScheduleEvent(ScheduleEvent(s, "Pause"), "Ended")
  ELSE IF s.pipeline_status_ = "SeekingPlay"
    THEN ScheduleEvent(ScheduleEvent(s, "Seeked"), "Ended")
  ELSE ScheduleEvent(s, "Ended")

\* case media::PipelineStatus::Ended
ToEnded(s) ==
  IF s.pipeline_status_ = "Playing"
    THEN ScheduleEvent(ScheduleEvent(s, "Pause"), "Ended")
  ELSE IF s.pipeline_status_ \in Seekings
    THEN ScheduleEvent(ScheduleEvent(s, "Seeked"), "Ended")
  ELSE ScheduleEvent(s, "Ended")

\* ToErrored that records the generic error without scheduling Error
ToErrored_Silent(s) ==
  IF s.error = NoError
    THEN [s EXCEPT !.error =
            MediaError("MEDIA_ERR_DECODE", <<"Unknown media error">>)]
    ELSE ScheduleEvent(s, "Error")

\* case media::PipelineStatus::Errored
ToErrored(s) ==
  LET s0 == ScheduleEvent(s, "Error")
  IN  IF s0.error = NoError
        THEN [s0 EXCEPT !.error =
                MediaError("MEDIA_ERR_DECODE", <<"Unknown media error">>)]
        ELSE s0

\* the switch over the new status
Dispatch(s, status) ==
  CASE status = "Initializing" -> ScheduleEvent(s, "Emptied")
    [] status = "Playing" -> ToPlaying(s)
    [] status = "Paused" -> ToPaused(s)
    [] status = "Stalled" -> s
    [] status \in Seekings -> ScheduleEvent(s, "Seeking")
    [] status = "Ended" -> ToEnded(s)
    [] status = "Errored" -> ToErrored(s)

\* OnPipelineStatusChanged with the Stalled case returning before the
\* status is committed
OnPipelineStatusChanged_StalledReturns(s, status) ==
  IF status = s.pipeline_status_ THEN RepeatedStatus(s, status)
  ELSE LET s0 == Dispatch(s, status)
       IN  IF s0.aborted \/ status = "Stalled" THEN s0
           ELSE [s0 EXCEPT !.pipeline_status_ = status]

OnPipelineStatusChanged(s, status) ==
  IF status = s.pipeline_status_ THEN RepeatedStatus(s, status)
  ELSE LET s0 == Dispatch(s, status)
       IN  IF s0.aborted THEN s0
           ELSE [s0 EXCEPT !.pipeline_status_ = status]

\* --------------------------------------------------------- OnMediaError
\* OnMediaError that overwrites a recorded error
OnMediaError_Overwrites(s, status) ==
  [ScheduleEvent(s, "Error") EXCEPT !.error =
     MediaError("MEDIA_ERR_DECODE", GetErrorString(status))]

OnMediaError(s, status) ==
  LET s0 == ScheduleEvent(s, "Error")
  IN  IF s0.error = NoError
        THEN [s0 EXCEPT !.error =
                MediaError("MEDIA_ERR_DECODE", GetErrorString(status))]
        ELSE s0

\* ----------------------------------------------------- source lifecycle
\* Load that detaches the source without resetting the ready state
Load_KeepsReadyState(s) ==
  LET s0 == [s EXCEPT !.error = NoError]
  IN  IF s0.media_source_ = NoSource THEN s0
      ELSE
        LET s1 == Call(s0, <<"CloseMediaSource", s0.media_source_>>)
            s2 == [s1 EXCEPT !.media_source_ = NoSource]
            s4 == OnPipelineStatusChanged(s2, "Initializing")
        IN  IF s4.aborted THEN s4
            ELSE [s4 EXCEPT !.will_play_ = FALSE]

\* Load that leaves the will-play latch as it is
Load_KeepsLatch(s) ==
  LET s0 == [s EXCEPT !.error = NoError, !.error_scheduled = FALSE]
  IN  IF s0.media_source_ = NoSource THEN s0
      ELSE
        LET s1 == CloseMediaSource(s0, s0.media_source_)
            s2 == [s1 EXCEPT !.media_source_ = NoSource]
            s3 == OnReadyStateChanged(s2, HAVE_NOTHING)
        IN  IF s3.aborted THEN s3
            ELSE OnPipelineStatusChanged(s3, "Initializing")

\* Load that clears the will-play latch without a source too
Load_AlwaysClearsLatch(s) ==
  LET s0 == [s EXCEPT !.error = NoError, !.error_scheduled = FALSE]
  IN  IF s0.media_source_ = NoSource THEN ClearLatch(s0)
      ELSE
        LET s1 == CloseMediaSource(s0, s0.media_source_)
            s2 == [s1 EXCEPT !.media_source_ = NoSource]
            s3 == OnReadyStateChanged(s2, HAVE_NOTHING)
            s4 == IF s3.aborted THEN s3
                  ELSE OnPipelineStatusChanged(s3, "Initializing")
        IN  IF s4.aborted THEN s4
            ELSE ClearLatch(s4)

Load(s) ==
  LET s0 == [s EXCEPT !.error = NoError, !.error_scheduled = FALSE]
  IN  IF s0.media_source_ = NoSource THEN s0
      ELSE
        LET s1 == CloseMediaSource(s0, s0.media_source_)
            s2 == [s1 EXCEPT !.media_source_ = NoSource]
            s3 == OnReadyStateChanged(s2, HAVE_NOTHING)
            s4 == IF s3.aborted THEN s3
                  ELSE OnPipelineStatusChanged(s3, "Initializing")
        IN  IF s4.aborted THEN s4
            ELSE ClearLatch(s4)

\* is_muted_ ? 0 : volume_
EffectiveVolume(muted, volume) == IF muted THEN 0 ELSE volume

\* Attach that plays for autoplay only
Attach_IgnoresLatch(s, src) ==
  LET found == FindMediaSource(src)
      s0 == [s EXCEPT !.media_source_ = found]
  IN  IF found # NoSource
        THEN LET s1 == Call(s0, <<"OpenMediaSource", found>>)
                 s2 == ControllerSetVolume(s1, found,
                         EffectiveVolume(is_muted_, volume_))
             IN  IF autoplay THEN Call(s2, <<"Play", found>>) ELSE s2
        ELSE s0

\* the body of SetSource after Load(), for a non-empty url
Attach(s, src) ==
  LET found == FindMediaSource(src)
      s0 == [s EXCEPT !.media_source_ = found]
  IN  IF found # NoSource
        THEN LET s1 == Call(s0, <<"OpenMediaSource", found>>)
                 s2 == ControllerSetVolume(s1, found,
                         EffectiveVolume(is_muted_, volume_))
             IN  IF autoplay \/ s2.will_play_
                   THEN [Call(s2, <<"Play", found>>) EXCEPT
                           !.latch_plays =
                             IF s2.will_play_ /\ @ < MaxLatchPlays
                               THEN @ + 1 ELSE @]
                   ELSE s2
        ELSE s0

\* SetSource without the Load() that unloads the previous MediaSource
SetSource_NoLoad(s, src) ==
  IF src = EmptyUrl THEN s ELSE Attach(s, src)

SetSource(s, src) ==
  LET s0 == Load(s)
      s1 == IF s0.aborted THEN s0 ELSE DCHECK(s0, s0.media_source_ = NoSource)
  IN  IF s1.aborted \/ src = EmptyUrl THEN s1 ELSE Attach(s1, src)

\* the ExceptionOr<void> SetSource returns
SetSourceResult(src) ==
  IF src = EmptyUrl \/ FindMediaSource(src) # NoSource
    THEN "ok" ELSE "NotSupportedError"

\* -------------------------------------------------------- play / pause
Play(s) ==
  IF s.media_source_ # NoSource
    THEN Call(s, <<"Play", s.media_source_>>)
    ELSE [s EXCEPT !.will_play_ = TRUE, !.latch_plays = 0]

Pause(s) ==
  IF s.media_source_ # NoSource
    THEN Call(s, <<"Pause", s.media_source_>>)
    ELSE ClearLatch(s)

\* PushVolume that pushes volume_ whatever the muted flag
PushVolume_IgnoresMute(s, muted, volume) ==
  IF s.media_source_ # NoSource
    THEN ControllerSetVolume(s, s.media_source_, volume)
    ELSE s

\* SetMuted / SetVolume push the effective volume when a source is attached
PushVolume(s, muted, volume) ==
  IF s.media_source_ # NoSource
    THEN ControllerSetVolume(s, s.media_source_,
                             EffectiveVolume(muted, volume))
    ELSE s

\* SetCurrentTime / SetPlaybackRate
PassThrough(s, what) ==
  IF s.media_source_ # NoSource
    THEN Call(s, <<what, s.media_source_>>) ELSE s

\* ---------------------------------------------------------- text tracks
\* growth of the storage of text_tracks when it is full (doubling)
GrownCapacity(capacity) == IF capacity = 0 THEN 1 ELSE 2 * capacity

\* text_tracks.emplace_back(ret): a full storage is replaced by a larger
\* allocation and the old one is freed
AddTextTrack(s) ==
  LET ret == Len(s.text_tracks.elems) + 1
      full == Len(s.text_tracks.elems) = s.text_tracks.capacity
  IN  [s EXCEPT
         !.text_tracks.elems = Append(@, ret),
         !.text_tracks.capacity = IF full THEN GrownCapacity(@) ELSE @,
         !.text_tracks.buffer = IF full THEN @ + 1 ELSE @]

\* no range-for is running
NoIteration ==
  [buffer |-> 0, index |-> 0, end |-> 0, snapshot |-> <<>>, asked |-> <<>>]

\* ----------------------------------------------------------------- Init
\* HTMLVideoElement::HTMLVideoElement
Init ==
  /\ ready_state = HAVE_NOTHING
  /\ pipeline_status_ = "Initializing"
  /\ media_source_ = NoSource
  /\ error = NoError
  /\ autoplay = FALSE
  /\ will_play_ = FALSE
  /\ is_muted_ = FALSE
  /\ volume_ = VolumeSteps
  /\ events = <<>>
  /\ calls = <<>>
  /\ result = "ok"
  /\ last_call = [op |-> "HTMLVideoElement", arg |-> <<>>]
  /\ pre = [ready_state |-> HAVE_NOTHING, pipeline_status_ |-> "Initializing",
            media_source_ |-> NoSource, error |-> NoError,
            will_play_ |-> FALSE]
  /\ dchecks_on \in BOOLEAN
  /\ dcheck_failed = FALSE
  /\ aborted = FALSE
  /\ attach_broken = FALSE
  /\ pipeline_volume = [id \in SourceIds |-> VolumeUnset]
  /\ error_scheduled = FALSE
  /\ latch_plays = 0
  /\ text_tracks = [elems |-> <<>>, capacity |-> 0, buffer |-> 0]
  /\ shutdown_ = FALSE
  /\ dtor = "alive"
  /\ threads_started = 1
  /\ thread_ = [pc |-> "start", lastTime |-> 0, time |-> 0,
                saw_source |-> NoSource, cue_args |-> <<>>,
                iter |-> NoIteration, eval_prev |-> 0,
                ticks_after_stop |-> 0, fault |-> "none"]
  /\ crashed = FALSE

\* -------------------------------------------------------------- actions
\* A call that started from the current state and ended in end.
Commit(end, op, arg, res) ==
  /\ ~aborted /\ ~crashed /\ dtor = "alive"
  /\ \E s \in {end} :
       /\ text_tracks' = s.text_tracks
       /\ UNCHANGED <<shutdown_, dtor, threads_started>>
       /\ UNCHANGED threadVars
       /\ ready_state' = s.ready_state
       /\ pipeline_status_' = s.pipeline_status_
       /\ media_source_' = s.media_source_
       /\ error' = s.error
       /\ will_play_' = s.will_play_
       /\ events' = s.events
       /\ calls' = s.calls
       /\ dcheck_failed' = s.dcheck_failed
       /\ aborted' = s.aborted
       /\ attach_broken' = s.attach_broken
       /\ pipeline_volume' = s.pipeline_volume
       /\ error_scheduled' = s.error_scheduled
       /\ latch_plays' = s.latch_plays
       /\ result' = (IF s.aborted THEN "aborted" ELSE res)
       /\ last_call' = [op |-> op, arg |-> arg]
       /\ pre' = [ready_state |-> ready_state,
                  pipeline_status_ |-> pipeline_status_,
                  media_source_ |-> media_source_, error |-> error,
                  will_play_ |-> will_play_]
       /\ UNCHANGED dchecks_on

\* the pipeline reports a ready state
SetReadyState ==
  \E new \in MediaReadyState :
    /\ Commit(OnReadyStateChanged(Self, new), "SetReadyState", new, "ok")
    /\ UNCHANGED <<autoplay, is_muted_, volume_>>

\* the pipeline reports a status
SetPipelineStatus ==
  \E status \in PipelineStatus :
    /\ Commit(OnPipelineStatusChanged(Self, status),
              "SetPipelineStatus", status, "ok")
    /\ UNCHANGED <<autoplay, is_muted_, volume_>>

\* the pipeline reports an error
MediaErrorReported ==
  \E status \in MediaStatuses :
    /\ Commit(OnMediaError(Self, status), "OnMediaError", status, "ok")
    /\ UNCHANGED <<autoplay, is_muted_, volume_>>

\* script calls load()
CallLoad ==
  /\ Commit(Load(Self), "Load", <<>>, "ok")
  /\ UNCHANGED <<autoplay, is_muted_, volume_>>

\* script assigns src
CallSetSource ==
  \E src \in Urls :
    /\ Commit(SetSource(Self, src), "SetSource", src, SetSourceResult(src))
    /\ UNCHANGED <<autoplay, is_muted_, volume_>>

\* script calls play()
CallPlay ==
  /\ Commit(Play(Self), "Play", <<>>, "ok")
  /\ UNCHANGED <<autoplay, is_muted_, volume_>>

\* script calls pause()
CallPause ==
  /\ Commit(Pause(Self), "Pause", <<>>, "ok")
  /\ UNCHANGED <<autoplay, is_muted_, volume_>>

\* SetMuted(muted)
CallSetMuted ==
  \E muted \in BOOLEAN :
    /\ is_muted_' = muted
    /\ Commit(PushVolume(Self, muted, volume_), "SetMuted", muted, "ok")
    /\ UNCHANGED <<autoplay, volume_>>

\* SetVolume(volume)
CallSetVolume ==
  \E volume \in 0..VolumeSteps :
    /\ volume_' = volume
    /\ Commit(PushVolume(Self, is_muted_, volume), "SetVolume", volume, "ok")
    /\ UNCHANGED <<autoplay, is_muted_>>

\* SetCurrentTime(time) and SetPlaybackRate(rate)
CallSetTimeOrRate ==
  \E what \in {"SetCurrentTime", "SetPlaybackRate"} :
    /\ Commit(PassThrough(Self, what), what, <<>>, "ok")
    /\ UNCHANGED <<autoplay, is_muted_, volume_>>

\* script writes the autoplay property
SetAutoplay ==
  \E b \in BOOLEAN :
    /\ autoplay' = b
    /\ Commit(Self, "SetAutoplay", b, "ok")
    /\ UNCHANGED <<is_muted_, volume_>>

\* script calls addTextTrack()
CallAddTextTrack ==
  /\ Len(text_tracks.elems) < MaxTracks
  /\ Commit(AddTextTrack(Self), "AddTextTrack", <<>>, "ok")
  /\ UNCHANGED <<autoplay, is_muted_, volume_>>

\* ~HTMLVideoElement, up to the join: shutdown_.store(true)
Destroy ==
  /\ ~aborted /\ ~crashed /\ dtor = "alive"
  /\ shutdown_' = TRUE
  /\ dtor' = "joining"
  /\ UNCHANGED <<mainVars, threadVars, threads_started>>

\* ~HTMLVideoElement: thread_.join() returns
Join_Detached ==
  /\ ~aborted /\ ~crashed /\ dtor = "joining"
  /\ dtor' = "destroyed"
  /\ UNCHANGED <<mainVars, threadVars, threads_started, shutdown_>>

Join ==
  /\ ~aborted /\ ~crashed /\ dtor = "joining"
  /\ thread_.pc = "exited"
  /\ dtor' = "destroyed"
  /\ UNCHANGED <<mainVars, threadVars, threads_started, shutdown_>>

\* ------------------------------------------------------------ ThreadMain
\* ThreadMain may take a step
Running == ~aborted /\ ~crashed /\ thread_.pc # "exited"

\* what a step of ThreadMain leaves alone
ThreadFrame == UNCHANGED <<mainVars, shutdown_, dtor, threads_started>>

\* th after the step that stores the result t of CurrentTime() into
\* `into` ("lastTime" or "time") and goes on at `next`
Sampled(th, into, t, next) ==
  [th EXCEPT !.pc = next,
             !.saw_source = NoSource,
             !.lastTime = IF into = "lastTime" THEN t ELSE @,
             !.time = IF into = "time" THEN t ELSE @,
             !.eval_prev = IF into = "lastTime" THEN t ELSE @]

\* CurrentTime(), line 258: if (!media_source_) return 0;
CurrentTimeTest(th, into, use, next) ==
  /\ crashed' = FALSE
  /\ thread_' =
       IF media_source_ = NoSource
         THEN Sampled(th, into, 0, next)
         ELSE [th EXCEPT !.pc = use, !.saw_source = media_source_]

\* CurrentTime(), line 261: media_source_->...->GetCurrentTime().  When
\* Load() has closed and reset the source since the test, the call goes
\* through the pointer as it is read again (null: the call crashes;
\* another source set since: its time) or through the pointer that was
\* tested (the time comes from the closed source).
CurrentTimeUse(th, into, next) ==
  \/ /\ media_source_ # NoSource
     /\ \E t \in Times : thread_' = Sampled(th, into, t, next)
     /\ crashed' = FALSE
  \/ /\ media_source_ # th.saw_source
     /\ \E t \in Times :
          thread_' = [Sampled(th, into, t, next)
                        EXCEPT !.fault = "closed_source"]
     /\ crashed' = FALSE
  \/ /\ media_source_ = NoSource
     /\ thread_' = [th EXCEPT !.fault = "closed_source"]
     /\ crashed' = TRUE

\* thread_ as a step that reads nothing it must not finds it
Clean == [thread_ EXCEPT !.fault = "none"]

\* double lastTime = CurrentTime();
T_Start ==
  /\ Running /\ thread_.pc = "start"
  /\ CurrentTimeTest(Clean, "lastTime", "start_use", "test")
  /\ ThreadFrame

T_StartUse ==
  /\ Running /\ thread_.pc = "start_use"
  /\ CurrentTimeUse(Clean, "lastTime", "test")
  /\ ThreadFrame

\* while (!shutdown_.load(std::memory_order_acquire))
T_Test ==
  /\ Running /\ thread_.pc = "test"
  /\ thread_' = [Clean EXCEPT !.pc = IF shutdown_ THEN "exited" ELSE "sample"]
  /\ UNCHANGED crashed
  /\ ThreadFrame

\* const double time = CurrentTime();
T_Sample ==
  /\ Running /\ thread_.pc = "sample"
  /\ CurrentTimeTest(
       [Clean EXCEPT !.ticks_after_stop =
          IF shutdown_ /\ @ < MaxTicksAfterStop THEN @ + 1 ELSE @],
       "time", "sample_use", "status")
  /\ ThreadFrame

T_SampleUse ==
  /\ Running /\ thread_.pc = "sample_use"
  /\ CurrentTimeUse(Clean, "time", "status")
  /\ ThreadFrame

\* T_Status that also checks cues while the pipeline is paused
T_Status_AlsoPaused ==
  /\ Running /\ thread_.pc = "status"
  /\ thread_' =
       IF pipeline_status_ \in {"Playing", "Paused"}
         THEN [Clean EXCEPT !.pc = "cue_begin",
                            !.cue_args = <<thread_.time, thread_.lastTime>>,
                            !.eval_prev = thread_.time]
         ELSE [Clean EXCEPT !.pc = "sleep", !.time = 0]
  /\ UNCHANGED crashed
  /\ ThreadFrame

\* if (pipeline_status_ == media::PipelineStatus::Playing)
\*   CheckForCueChange(time, lastTime);
T_Status ==
  /\ Running /\ thread_.pc = "status"
  /\ thread_' =
       IF pipeline_status_ = "Playing"
         THEN [Clean EXCEPT !.pc = "cue_begin",
                            !.cue_args = <<thread_.time, thread_.lastTime>>,
                            !.eval_prev = thread_.time]
         ELSE [Clean EXCEPT !.pc = "sleep", !.time = 0]
  /\ UNCHANGED crashed
  /\ ThreadFrame

\* for (const auto& text_track : text_tracks): begin() and end()
T_CueBegin ==
  /\ Running /\ thread_.pc = "cue_begin"
  /\ thread_' =
       [Clean EXCEPT
          !.pc = "cue",
          !.iter = [buffer |-> text_tracks.buffer, index |-> 1,
                    end |-> Len(text_tracks.elems),
                    snapshot |-> text_tracks.elems, asked |-> <<>>]]
  /\ UNCHANGED crashed
  /\ ThreadFrame

\* one round of the range-for: text_track->CheckForCueChange(newTime,
\* oldTime).  The iterator points into the allocation begin() saw; when
\* emplace_back has replaced it, the slot read is freed memory: it still
\* holds the track, or the call through it crashes.
T_CueNext ==
  /\ Running /\ thread_.pc = "cue"
  /\ LET it == thread_.iter
     IN  \/ /\ it.index > it.end
            /\ thread_' = [Clean EXCEPT !.iter = NoIteration,
                                        !.cue_args = <<>>,
                                        !.pc = "advance"]
            /\ crashed' = FALSE
         \/ /\ it.index <= it.end
            /\ it.buffer = text_tracks.buffer
            /\ thread_' =
                 [Clean EXCEPT
                    !.iter.index = @ + 1,
                    !.iter.asked = Append(@, text_tracks.elems[it.index])]
            /\ crashed' = FALSE
         \/ /\ it.index <= it.end
            /\ it.buffer # text_tracks.buffer
            /\ thread_' =
                 [thread_ EXCEPT
                    !.fault = "moved_slot",
                    !.iter.index = @ + 1,
                    !.iter.asked = Append(@, it.snapshot[it.index])]
            /\ crashed' = FALSE
         \/ /\ it.index <= it.end
            /\ it.buffer # text_tracks.buffer
            /\ thread_' = [thread_ EXCEPT !.fault = "moved_slot"]
            /\ crashed' = TRUE
  /\ ThreadFrame

\* lastTime = time;
T_Advance ==
  /\ Running /\ thread_.pc = "advance"
  /\ thread_' = [Clean EXCEPT !.lastTime = thread_.time,
                              !.time = 0,
                              !.pc = "sleep"]
  /\ UNCHANGED crashed
  /\ ThreadFrame

\* clock_->SleepSeconds(0.25);
T_Sleep ==
  /\ Running /\ thread_.pc = "sleep"
  /\ thread_' = [Clean EXCEPT !.pc = "test"]
  /\ UNCHANGED crashed
  /\ ThreadFrame

\* a step of ThreadMain
ThreadStep ==
  \/ T_Start
  \/ T_StartUse
  \/ T_Test
  \/ T_Sample
  \/ T_SampleUse
  \/ T_Status
  \/ T_CueBegin
  \/ T_CueNext
  \/ T_Advance
  \/ T_Sleep

\* the state machine: pipeline callbacks, load(), src, play() and pause()
Next ==
  \/ SetReadyState
  \/ SetPipelineStatus
  \/ MediaErrorReported
  \/ CallLoad
  \/ CallSetSource
  \/ CallPlay
  \/ CallPause

Spec == Init /\ [][Next]_vars

\* the state machine together with the volume and time controls
NextControls ==
  \/ Next
  \/ CallSetMuted
  \/ CallSetVolume
  \/ CallSetTimeOrRate

SpecControls == Init /\ [][NextControls]_vars

\* every operation of the owning thread
NextAll ==
  \/ NextControls
  \/ SetAutoplay

SpecAll == Init /\ [][NextAll]_vars

\* the state machine together with the autoplay property
NextPlayback ==
  \/ Next
  \/ SetAutoplay

SpecPlayback == Init /\ [][NextPlayback]_vars

\* the element's settings and tracks next to load(), src, play(), pause()
\* and the status and error reports of the pipeline
NextElement ==
  \/ SetPipelineStatus
  \/ MediaErrorReported
  \/ CallLoad
  \/ CallSetSource
  \/ CallPlay
  \/ CallPause
  \/ CallSetMuted
  \/ CallSetVolume
  \/ SetAutoplay
  \/ CallAddTextTrack

SpecElement == Init /\ [][NextElement]_vars

\* the pipeline starts and pauses playback
PlayPauseReports ==
  \E status \in {"Playing", "Paused"} :
    /\ Commit(OnPipelineStatusChanged(Self, status),
              "SetPipelineStatus", status, "ok")
    /\ UNCHANGED <<autoplay, is_muted_, volume_>>

\* the element's two threads: ThreadMain next to the owning thread, which
\* changes the source, adds text tracks, sees playback start and pause,
\* and destroys the element
NextThreads ==
  \/ ThreadStep
  \/ PlayPauseReports
  \/ CallLoad
  \/ CallSetSource
  \/ CallAddTextTrack
  \/ Destroy
  \/ Join

SpecThreads == Init /\ [][NextThreads]_vars

\* ThreadMain keeps running and a join that can return does
SpecThreadsFair ==
  /\ SpecThreads
  /\ WF_vars(ThreadStep)
  /\ WF_vars(Join)

TypeOK ==
  /\ ready_state \in MediaReadyState
  /\ pipeline_status_ \in PipelineStatus
  /\ media_source_ \in {NoSource} \cup SourceIds
  /\ autoplay \in BOOLEAN /\ will_play_ \in BOOLEAN /\ is_muted_ \in BOOLEAN
  /\ volume_ \in 0..VolumeSteps
  /\ aborted => (dchecks_on /\ dcheck_failed)
  /\ Len(text_tracks.elems) <= MaxTracks
  /\ Len(text_tracks.elems) <= text_tracks.capacity
  /\ text_tracks.buffer \in 0..MaxTracks
  /\ shutdown_ \in BOOLEAN /\ crashed \in BOOLEAN
  /\ dtor \in {"alive", "joining", "destroyed"}
  /\ thread_.pc \in {"start", "start_use", "test", "sample", "sample_use",
                     "status", "cue_begin", "cue", "advance", "sleep",
                     "exited"}
  /\ thread_.lastTime \in Times /\ thread_.time \in Times
  /\ thread_.eval_prev \in Times
  /\ thread_.saw_source \in {NoSource} \cup SourceIds
  /\ thread_.ticks_after_stop \in 0..MaxTicksAfterStop
  /\ thread_.fault \in {"none", "moved_slot", "closed_source"}

\* =============================================================== claims
\* the step is a call of op
IsCall(op) == last_call'.op = op

\* the step is a call of op with argument arg
IsCallWith(op, arg) == last_call'.op = op /\ last_call'.arg = arg

Range(seq) == {seq[i] : i \in 1..Len(seq)}

\* the fields of the element proper are left alone by the step
ElementUnchanged ==
  UNCHANGED <<ready_state, pipeline_status_, media_source_, error, autoplay,
              will_play_, is_muted_, volume_>>

\* the most recent call was op
WasCall(op) == last_call.op = op

\* the most recent call was op with argument arg
WasCallWith(op, arg) == last_call.op = op /\ last_call.arg = arg

\* ------------------------------------------------------------------ C1
\* C1 (as stated): as long as ready-state reports respect the attachment
\* precondition, the ready state is NoData if and only if no MediaSource
\* is attached, in every state between public operations.
C1_Original ==
  ~attach_broken =>
    ((ready_state = HAVE_NOTHING) <=> (media_source_ = NoSource))

\* C1 (amended): as long as ready-state reports respect the attachment
\* precondition, an element without a MediaSource has ready state NoData.
\* The converse does not hold: a successful SetSource attaches the source
\* and leaves the ready state at NoData until the pipeline reports one.
C1_NoSourceImpliesNoData ==
  ~attach_broken =>
    (media_source_ = NoSource => ready_state = HAVE_NOTHING)

\* Load() has detached a source whose ready state was beyond NoData
C1_Witness ==
  /\ WasCall("Load")
  /\ pre.media_source_ # NoSource
  /\ pre.ready_state # HAVE_NOTHING
  /\ media_source_ = NoSource
  /\ ready_state = HAVE_NOTHING
  /\ ~attach_broken

\* ------------------------------------------------------------------ C2
\* the threshold is crossed upward by the change cur -> new
CrossedUp(cur, new, threshold) == cur < threshold /\ threshold <= new

\* the sequence the claim lists for the change cur -> new
C2_Expected(cur, new) ==
  SelectSeq(<<"LoadedMetaData", "LoadedData", "CanPlay", "Waiting",
              "ReadyStateChange">>,
            LAMBDA e :
              \/ e = "LoadedMetaData" /\ CrossedUp(cur, new, HAVE_METADATA)
              \/ e = "LoadedData" /\ CrossedUp(cur, new, HAVE_CURRENT_DATA)
              \/ e = "CanPlay" /\ CrossedUp(cur, new, HAVE_ENOUGH_DATA)
              \/ e = "Waiting"
                   /\ cur \in {HAVE_FUTURE_DATA, HAVE_ENOUGH_DATA}
                   /\ new \in {HAVE_METADATA, HAVE_CURRENT_DATA}
              \/ e = "ReadyStateChange")

\* C2: a ready-state report new # current that satisfies the attachment
\* precondition schedules exactly LoadedMetaData, LoadedData, CanPlay,
\* Waiting (each only when its threshold is crossed, each at most once),
\* then ReadyStateChange last, and leaves the ready state equal to new.
C2_ReadyStateSequence ==
  [][\A new \in MediaReadyState :
       (/\ IsCallWith("SetReadyState", new)
        /\ new # ready_state
        /\ AttachmentOK(media_source_, new))
       => /\ events' = C2_Expected(ready_state, new)
          /\ \A i, j \in 1..Len(events') :
               events'[i] = events'[j] => i = j
          /\ events'[Len(events')] = "ReadyStateChange"
          /\ ready_state' = new
          /\ ~aborted']_vars

\* a report that skips from NoData to EnoughData
C2_Witness ==
  /\ WasCallWith("SetReadyState", HAVE_ENOUGH_DATA)
  /\ pre.ready_state = HAVE_NOTHING
  /\ pre.media_source_ # NoSource
  /\ ready_state = HAVE_ENOUGH_DATA
  /\ events = <<"LoadedMetaData", "LoadedData", "CanPlay",
                "ReadyStateChange">>

\* ------------------------------------------------------------------ C3
\* C3: a ready-state report schedules Waiting exactly when the current
\* ready state is FutureData or EnoughData and the new one is Metadata or
\* CurrentData; Load() never schedules Waiting.
C3_WaitingExactly ==
  [][/\ \A new \in MediaReadyState :
          IsCallWith("SetReadyState", new)
          => (("Waiting" \in Range(events'))
              <=> (/\ ready_state \in {HAVE_FUTURE_DATA, HAVE_ENOUGH_DATA}
                   /\ new \in {HAVE_METADATA, HAVE_CURRENT_DATA}))
     /\ IsCall("Load") => "Waiting" \notin Range(events')]_vars

\* a drop from EnoughData to Metadata
C3_Witness ==
  /\ WasCallWith("SetReadyState", HAVE_METADATA)
  /\ pre.ready_state = HAVE_ENOUGH_DATA
  /\ events = <<"Waiting", "ReadyStateChange">>

\* ------------------------------------------------------------------ C4
\* C4 (as stated): from a state in which the attachment precondition was
\* never broken, reporting the current ready state again schedules no
\* event, changes no state and does not fail.
C4_Original ==
  [][\A x \in MediaReadyState :
       (IsCallWith("SetReadyState", x) /\ x = ready_state
          /\ ~attach_broken)
       => (events' = <<>> /\ ElementUnchanged /\ ~aborted')]_vars

\* C4 (amended): reporting the current ready state again schedules no
\* event and changes no field of the element; it completes normally when
\* the report satisfies the attachment precondition.  The precondition is
\* asserted before the comparison, so in the state right after a
\* successful SetSource (source attached, ready state NoData) the report
\* of NoData trips the assertion: a build with assertions terminates, a
\* build without them treats the report as a no-op.
C4_RepeatedReadyState ==
  [][\A x \in MediaReadyState :
       (IsCallWith("SetReadyState", x) /\ x = ready_state)
       => /\ events' = <<>>
          /\ ElementUnchanged
          /\ dcheck_failed' <=> ~AttachmentOK(media_source_, x)
          /\ aborted' <=> (dchecks_on /\ ~AttachmentOK(media_source_, x))
    ]_vars

\* the second of two identical reports, with a source attached
C4_Witness ==
  /\ WasCallWith("SetReadyState", HAVE_CURRENT_DATA)
  /\ pre.ready_state = HAVE_CURRENT_DATA
  /\ pre.media_source_ # NoSource
  /\ ready_state = HAVE_CURRENT_DATA
  /\ events = <<>>
  /\ ~aborted

\* ------------------------------------------------------------------ C5
\* the step reports status new while the current status is another one
IsChangeTo(new) ==
  IsCallWith("SetPipelineStatus", new) /\ pipeline_status_ # new

\* what the claim lists for a change prev -> Playing
C5_Expected(prev) ==
  (IF prev = "Paused" THEN <<"Play">>
   ELSE IF prev = "SeekingPlay" THEN <<"Seeked">> ELSE <<>>)
  \o <<"Playing">>

\* C5 (as stated): from every status other than Playing, a report of
\* Playing schedules Play first if the status was Paused, Seeked first if
\* it was SeekingPlay, nothing extra otherwise, and then Playing last;
\* also from SeekingPause, Ended and Errored.
C5_Original ==
  [][IsChangeTo("Playing")
     => events' = C5_Expected(pipeline_status_)]_vars

\* previous statuses the Playing case asserts cannot happen
PlayingUnexpectedFrom == {"SeekingPause", "Ended", "Errored"}

\* C5 (amended): a report of Playing schedules exactly [Play, Playing]
\* from Paused, [Seeked, Playing] from SeekingPlay and [Playing] from
\* Stalled or Initializing.  From SeekingPause, Ended or Errored the call
\* trips an internal assertion: a build with assertions terminates there,
\* having scheduled nothing and kept the old status; a build without
\* assertions schedules exactly [Playing].
C5_ToPlaying ==
  [][IsChangeTo("Playing")
     => IF pipeline_status_ \in PlayingUnexpectedFrom /\ dchecks_on
          THEN aborted' /\ events' = <<>>
               /\ pipeline_status_' = pipeline_status_
          ELSE ~aborted' /\ events' = C5_Expected(pipeline_status_)
               /\ pipeline_status_' = "Playing"]_vars

\* Paused -> Playing
C5_Witness ==
  /\ WasCallWith("SetPipelineStatus", "Playing")
  /\ pre.pipeline_status_ = "Paused"
  /\ pipeline_status_ = "Playing"
  /\ events = <<"Play", "Playing">>

\* ------------------------------------------------------------------ C6
\* what the claim lists for a change prev -> Paused
C6_Expected(prev) ==
  IF prev \in {"Playing", "Stalled"} THEN <<"Pause">>
  ELSE IF prev = "SeekingPause" THEN <<"Seeked">> ELSE <<>>

\* C6 (as stated): from every status other than Paused, a report of
\* Paused schedules exactly [Pause] from Playing or Stalled, [Seeked] from
\* SeekingPause and nothing from Initializing, SeekingPlay, Ended or
\* Errored, without failing.
C6_Original ==
  [][IsChangeTo("Paused")
     => events' = C6_Expected(pipeline_status_) /\ ~aborted']_vars

\* previous statuses the Paused case asserts cannot happen
PausedUnexpectedFrom == {"SeekingPlay", "Ended", "Errored"}

\* C6 (amended): a report of Paused schedules exactly [Pause] from Playing
\* or Stalled, [Seeked] from SeekingPause and nothing from any other
\* status.  It completes and commits Paused from Playing, Stalled,
\* SeekingPause and Initializing; from SeekingPlay, Ended or Errored it
\* trips an internal assertion, which terminates a build with assertions
\* (old status kept) and is skipped by a build without them.
C6_ToPaused ==
  [][IsChangeTo("Paused")
     => /\ events' = C6_Expected(pipeline_status_)
        /\ aborted' <=> (pipeline_status_ \in PausedUnexpectedFrom
                           /\ dchecks_on)
        /\ pipeline_status_' = IF aborted' THEN pipeline_status_
                               ELSE "Paused"]_vars

\* SeekingPause -> Paused
C6_Witness ==
  /\ WasCallWith("SetPipelineStatus", "Paused")
  /\ pre.pipeline_status_ = "SeekingPause"
  /\ pipeline_status_ = "Paused"
  /\ events = <<"Seeked">>

\* ------------------------------------------------------------------ C7
\* C7: from every status other than Ended, a report of Ended schedules
\* exactly [Pause, Ended] from Playing, [Seeked, Ended] from SeekingPlay
\* or SeekingPause and [Ended] otherwise.
C7_ToEnded ==
  [][IsChangeTo("Ended")
     => /\ events' =
             (IF pipeline_status_ = "Playing" THEN <<"Pause", "Ended">>
              ELSE IF pipeline_status_ \in {"SeekingPlay", "SeekingPause"}
                THEN <<"Seeked", "Ended">>
              ELSE <<"Ended">>)
        /\ events'[Len(events')] = "Ended"
        /\ ~aborted']_vars

\* SeekingPause -> Ended
C7_Witness ==
  /\ WasCallWith("SetPipelineStatus", "Ended")
  /\ pre.pipeline_status_ = "SeekingPause"
  /\ pipeline_status_ = "Ended"
  /\ events = <<"Seeked", "Ended">>

\* ------------------------------------------------------------------ C8
\* C8: a report of the current status changes neither the status nor the
\* error record; it schedules exactly one Seeking when the status is
\* SeekingPlay or SeekingPause and nothing otherwise.
C8_RepeatedStatus ==
  [][\A status \in PipelineStatus :
       (IsCallWith("SetPipelineStatus", status)
          /\ status = pipeline_status_)
       => /\ pipeline_status_' = pipeline_status_
          /\ error' = error
          /\ events' = (IF status \in {"SeekingPlay", "SeekingPause"}
                          THEN <<"Seeking">> ELSE <<>>)
          /\ ~aborted']_vars

\* the second of two SeekingPlay reports in a row
C8_Witness ==
  /\ WasCallWith("SetPipelineStatus", "SeekingPlay")
  /\ pre.pipeline_status_ = "SeekingPlay"
  /\ pipeline_status_ = "SeekingPlay"
  /\ events = <<"Seeking">>

\* ------------------------------------------------------------------ C9
\* what the claim lists for a change to Stalled, Initializing or a seek
C9_EventsOK(new, scheduled) ==
  /\ new = "Stalled" => scheduled = <<>>
  /\ new = "Initializing" => scheduled = <<"Emptied">>
  /\ new \in {"SeekingPlay", "SeekingPause"} => scheduled = <<"Seeking">>

\* C9 (as stated): for every ordered pair of distinct statuses (prev, new)
\* the report of new completes without an assertion failure and leaves the
\* status equal to new; it schedules nothing for Stalled, [Emptied] for
\* Initializing and [Seeking] for either seeking status.
C9_Original ==
  [][\A new \in PipelineStatus :
       IsChangeTo(new)
       => /\ ~aborted'
          /\ pipeline_status_' = new
          /\ C9_EventsOK(new, events')]_vars

\* the pairs (prev, new) an assertion of the switch rules out
UnexpectedChange(prev, new) ==
  \/ new = "Playing" /\ prev \in PlayingUnexpectedFrom
  \/ new = "Paused" /\ prev \in PausedUnexpectedFrom

\* C9 (amended): for every ordered pair of distinct statuses except
\* SeekingPause/Ended/Errored -> Playing and SeekingPlay/Ended/Errored ->
\* Paused, the report completes and leaves the status equal to new; it
\* schedules nothing for Stalled, [Emptied] for Initializing and [Seeking]
\* for either seeking status.  The six excepted pairs trip an internal
\* assertion: a build with assertions terminates with the old status, a
\* build without them commits new.
C9_EveryChange ==
  [][\A new \in PipelineStatus :
       IsChangeTo(new)
       => /\ aborted' <=> (UnexpectedChange(pipeline_status_, new)
                             /\ dchecks_on)
          /\ pipeline_status_' = IF aborted' THEN pipeline_status_ ELSE new
          /\ C9_EventsOK(new, events')]_vars

\* Errored -> Stalled
C9_Witness ==
  /\ WasCallWith("SetPipelineStatus", "Stalled")
  /\ pre.pipeline_status_ = "Errored"
  /\ pipeline_status_ = "Stalled"
  /\ events = <<>>
  /\ ~aborted

\* ----------------------------------------------------------------- C10
\* C10: once the error record is set, a call either leaves it as it is or
\* is Load() or SetSource() and empties it.
C10_FirstErrorWins ==
  [][error # NoError
     => \/ error' = error
        \/ error' = NoError /\ (IsCall("Load") \/ IsCall("SetSource"))]_vars

\* a second, different error was reported and the first one is kept
C10_Witness ==
  /\ WasCall("OnMediaError")
  /\ pre.error # NoError
  /\ error = pre.error
  /\ error.message # GetErrorString(last_call.arg)
  /\ events = <<"Error">>

\* ----------------------------------------------------------------- C11
\* the generic error of a pipeline that reports Errored
GenericDecodeError ==
  MediaError("MEDIA_ERR_DECODE", <<"Unknown media error">>)

\* C11: a call that turns the error record from empty to set schedules an
\* Error event; OnMediaError schedules exactly one Error; a change to
\* Errored schedules exactly one Error and records the generic decode error
\* only when none is recorded; and a non-empty error record implies that
\* an Error event was scheduled since the last Load().
C11_ErrorIsAnnounced ==
  [][/\ (error = NoError /\ error' # NoError)
          => "Error" \in Range(events')
     /\ IsCall("OnMediaError")
          => /\ events' = <<"Error">>
             /\ error # NoError => error' = error
     /\ IsChangeTo("Errored")
          => /\ events' = <<"Error">>
             /\ error' = (IF error = NoError THEN GenericDecodeError
                          ELSE error)
     /\ error' # NoError => error_scheduled']_vars

\* the pipeline went to Errored with no error recorded
C11_Witness ==
  /\ WasCallWith("SetPipelineStatus", "Errored")
  /\ pre.error = NoError
  /\ pre.pipeline_status_ # "Errored"
  /\ error = GenericDecodeError
  /\ events = <<"Error">>
  /\ error_scheduled

\* ----------------------------------------------------------------- C12
\* C12: Load() on an element with a source attached, from any ready state
\* and status, leaves the error empty, closes the source exactly once and
\* detaches it, leaves the ready state NoData, the status Initializing and
\* the latch false, and schedules ReadyStateChange (only if the ready state
\* was not NoData) followed by Emptied (only if the status was not
\* Initializing).
C12_LoadWithSource ==
  [][(IsCall("Load") /\ media_source_ # NoSource)
     => /\ error' = NoError
        /\ calls' = << <<"CloseMediaSource", media_source_>> >>
        /\ media_source_' = NoSource
        /\ ready_state' = HAVE_NOTHING
        /\ pipeline_status_' = "Initializing"
        /\ will_play_' = FALSE
        /\ events' =
             (IF ready_state # HAVE_NOTHING
                THEN <<"ReadyStateChange">> ELSE <<>>)
             \o (IF pipeline_status_ # "Initializing"
                   THEN <<"Emptied">> ELSE <<>>)
        /\ ~aborted']_vars

\* Load() of a playing element whose latch and error were set
C12_Witness ==
  /\ WasCall("Load")
  /\ pre.media_source_ # NoSource
  /\ pre.ready_state = HAVE_ENOUGH_DATA
  /\ pre.pipeline_status_ = "Playing"
  /\ pre.will_play_
  /\ pre.error # NoError
  /\ events = <<"ReadyStateChange", "Emptied">>
  /\ media_source_ = NoSource

\* ----------------------------------------------------------------- C13
\* C13: Load() on an element without a source clears the error record and
\* does nothing else: it schedules no event, calls no collaborator and
\* leaves the ready state, the status, the latch, the volume, the muted
\* flag, autoplay and the text tracks as they were; a second Load() right
\* after it changes nothing at all.
C13_LoadWithoutSource ==
  [][(IsCall("Load") /\ media_source_ = NoSource)
     => /\ error' = NoError
        /\ events' = <<>>
        /\ calls' = <<>>
        /\ UNCHANGED <<ready_state, pipeline_status_, media_source_,
                       will_play_, volume_, is_muted_, autoplay,
                       text_tracks>>
        /\ ~aborted'
        /\ WasCall("Load") =>
             (error' = error /\ Load(Load(Self)) = Load(Self))]_vars

\* a sourceless Load() that cleared an error while the latch was set, the
\* element muted, autoplay on and a text track present
C13_Witness ==
  /\ WasCall("Load")
  /\ pre.media_source_ = NoSource
  /\ pre.error # NoError
  /\ error = NoError
  /\ will_play_
  /\ is_muted_
  /\ autoplay
  /\ text_tracks.elems # <<>>

\* ----------------------------------------------------------------- C14
\* the number of play commands among the collaborator calls cs
Plays(cs) == Len(SelectSeq(cs, LAMBDA c : c[1] = "Play"))

C15_WillPlayLatch ==
  [][/\ (IsCall("Play") /\ media_source_ = NoSource)
          => /\ calls' = <<>> /\ events' = <<>>
             /\ will_play_' = TRUE
             /\ UNCHANGED <<ready_state, pipeline_status_, media_source_,
                            error, autoplay>>
     /\ (IsCall("Pause") /\ media_source_ = NoSource)
          => /\ calls' = <<>> /\ events' = <<>>
             /\ will_play_' = FALSE
             /\ UNCHANGED <<ready_state, pipeline_status_, media_source_,
                            error, autoplay>>
     /\ \A id \in SourceIds :
          IsCallWith("SetSource", UrlOf(id))
          => /\ media_source_' = id
             /\ Plays(calls') =
                  (IF autoplay \/ (will_play_ /\ media_source_ = NoSource)
                     THEN 1 ELSE 0)
     /\ (/\ media_source_ = NoSource
         /\ \/ IsCall("Load")
            \/ IsCallWith("SetSource", EmptyUrl)
            \/ IsCallWith("SetSource", BadUrl))
          => will_play_' = will_play_
     /\ latch_plays' <= 1]_vars

\* Play() without a source, honoured by a later SetSource
C15_Witness ==
  /\ WasCallWith("SetSource", UrlOf(1))
  /\ pre.media_source_ = NoSource
  /\ pre.will_play_
  /\ ~autoplay
  /\ Plays(calls) = 1
  /\ latch_plays = 1

\* ----------------------------------------------------------------- C16
\* C16: whenever a source is attached, the last volume pushed to its
\* pipeline is 0 when the element is muted and the element's volume
\* otherwise; SetVolume and SetMuted without a source store the value and
\* push nothing.
C16_VolumeFollowsElement ==
  [][/\ media_source_' # NoSource
          => pipeline_volume'[media_source_'] =
               (IF is_muted_' THEN 0 ELSE volume_')
     /\ \A volume \in 0..VolumeSteps :
          (IsCallWith("SetVolume", volume) /\ media_source_ = NoSource)
          => calls' = <<>> /\ volume_' = volume
               /\ UNCHANGED pipeline_volume
     /\ \A muted \in BOOLEAN :
          (IsCallWith("SetMuted", muted) /\ media_source_ = NoSource)
          => calls' = <<>> /\ is_muted_' = muted
               /\ UNCHANGED pipeline_volume]_vars

\* a source attached to an element that was muted while it had none
C16_Witness ==
  /\ WasCall("SetSource")
  /\ pre.media_source_ = NoSource
  /\ media_source_ # NoSource
  /\ is_muted_
  /\ volume_ = VolumeSteps
  /\ pipeline_volume[media_source_] = 0
  /\ calls = << <<"OpenMediaSource", media_source_>>,
                <<"SetVolume", media_source_, 0>> >>

\* ----------------------------------------------------------------- C17
\* the step is a step of ThreadMain
IsThreadStep == threadVars' # threadVars

\* C17: the destructor sets the stop flag before it joins; the join has
\* returned only if ThreadMain has left its loop; once the join has
\* returned ThreadMain takes no further step (it reads neither the time,
\* nor the status, nor the text tracks); and the element has exactly one
\* ThreadMain from construction to teardown.
C17_TeardownSafety ==
  [][/\ dtor' # "alive" => shutdown_'
     /\ dtor' = "destroyed" => thread_'.pc = "exited"
     /\ dtor = "destroyed" => ~IsThreadStep
     /\ threads_started' = 1]_vars

\* the element is destroyed after a teardown that began while ThreadMain
\* was inside a tick: it had passed the test of the flag, so it finished
\* that tick body before it left
C17_Witness ==
  /\ dtor = "destroyed"
  /\ thread_.pc = "exited"
  /\ thread_.ticks_after_stop = 1
  /\ text_tracks.elems # <<>>

\* ----------------------------------------------------------------- C18
\* C18: ThreadMain goes from its test of the status into CheckForCueChange
\* exactly if the status it reads is Playing, and CheckForCueChange is
\* entered from nowhere else; the call gets the time sampled in this tick
\* and, as previous time, the time sampled by the latest earlier tick that
\* checked cues (the time sampled at the start if there was none), and
\* every track of the walk is asked with these two times; lastTime is
\* written only at the start and after a CheckForCueChange, when it
\* becomes the time that tick sampled; no step of ThreadMain changes the
\* ready state, the status or the error or schedules an event.
C18_CueTick ==
  [][/\ (thread_.pc = "status" /\ thread_'.pc # "status")
          => ((thread_'.pc = "cue_begin") <=> (pipeline_status_ = "Playing"))
     /\ (thread_'.pc = "cue_begin" /\ thread_.pc # "cue_begin")
          => /\ thread_.pc = "status"
             /\ thread_'.cue_args = <<thread_.time, thread_.eval_prev>>
     /\ (thread_.pc = "cue" /\ thread_'.pc = "cue")
          => thread_'.cue_args = thread_.cue_args
     /\ (thread_'.pc = "advance" /\ thread_.pc # "advance")
          => thread_.pc = "cue"
     /\ thread_'.lastTime # thread_.lastTime
          => \/ thread_.pc \in {"start", "start_use"}
             \/ /\ thread_.pc = "advance"
                /\ thread_'.lastTime = thread_.eval_prev
     /\ IsThreadStep
          => UNCHANGED <<ready_state, pipeline_status_, error, events,
                         error_scheduled>>]_vars

\* a track is being asked about the cues between an earlier sample and a
\* different one of this tick, the first one taken by a tick that checked
\* cues too
C18_Witness ==
  /\ thread_.pc = "cue"
  /\ thread_.iter.asked # <<>>
  /\ thread_.cue_args = <<0, 1>>
  /\ thread_.lastTime = 1

\* ----------------------------------------------------------------- C19
\* C19: with ThreadMain scheduled fairly and a sleep that returns, once
\* shutdown_ is set ThreadMain leaves its loop and the join of the
\* destructor returns, and ThreadMain begins at most one more tick body
\* after shutdown_ was set.
C19_ShutdownLiveness ==
  /\ shutdown_ ~> (thread_.pc = "exited")
  /\ shutdown_ ~> (dtor = "destroyed")
  /\ [](thread_.ticks_after_stop <= 1)

\* ----------------------------------------------------------------- C20
\* C20: while AddTextTrack interleaves with the range-for of
\* CheckForCueChange, the tracks asked so far are the first tracks of the
\* set as it was when the walk began, each once and in order, and no step
\* of the walk reads a slot that an append has moved.
C20_SnapshotIteration ==
  /\ thread_.fault # "moved_slot"
  /\ thread_.pc = "cue"
       => thread_.iter.asked =
            SubSeq(thread_.iter.snapshot, 1, thread_.iter.index - 1)

\* ----------------------------------------------------------------- C21
\* C21: while Load() and SetSource() interleave with the time samples of
\* ThreadMain, no step of ThreadMain reads the time through a source that
\* has been closed or detached; the step that uses media_source_ in
\* CurrentTime() finds the source that the test before it found; and a
\* sample whose test finds no source is 0.
C21_SampleSeesOneAttachment ==
  [][/\ thread_'.fault # "closed_source"
     /\ (thread_.pc \in {"start_use", "sample_use"} /\ IsThreadStep)
          => media_source_ = thread_.saw_source
     /\ (thread_.pc = "start" /\ IsThreadStep /\ media_source_ = NoSource)
          => (thread_'.pc = "test" /\ thread_'.lastTime = 0)
     /\ (thread_.pc = "sample" /\ IsThreadStep /\ media_source_ = NoSource)
          => (thread_'.pc = "status" /\ thread_'.time = 0)]_vars
====
